---- MODULE Spec2Model ----
(***************************************************************************)
(* Model of turbo_pad_animation_frames/gen_animation_obj.py: the frame     *)
(* generator, the subdivided-square mesh builder, the vertex welder and    *)
(* the multi-frame OBJ/MTL serializer.                                     *)
(*                                                                         *)
(* Numbers.  Coordinates are exact rationals kept as integer numerators    *)
(* over a denominator shared by the whole mesh (the grid of                *)
(* create_subdivided_square(S) has denominator S: x = i/S is kept as i).   *)
(* A tolerance is a rational <<num, den>> expressed in the same unit as    *)
(* the coordinates it is compared with.  Lists are sequences; Python's     *)
(* 0-based positions are kept where the code computes with them (mapping,  *)
(* new_idx, the loop counters).                                            *)
(***************************************************************************)
EXTENDS Integers, Sequences, FiniteSets, TLC

VARIABLES
    pc,                 \* position of the running function
    error,              \* the exception that ended the run, "None" when none
    \* merge_vertices called on its own
    vertices, texcoords, faces, tol,
    mapping,            \* the dict built by the last finished call
    welded, rewelded,
    \* write_obj_and_mtl
    subdivisions,
    base_vertices, base_texcoords, base_faces,
    merged_vertices, merged_texcoords, merged_faces,
    obj_file, mtl_file, vertex_offset,
    \* generate_scrolled_frames
    n_frames, direction, width, height, shifts, saved,
    \* shared by the two loops: the frame list and the loop counter
    frames, i

vars == <<pc, error, vertices, texcoords, faces, tol, mapping, welded, rewelded,
          subdivisions, base_vertices, base_texcoords, base_faces,
          merged_vertices, merged_texcoords, merged_faces,
          obj_file, mtl_file, vertex_offset,
          n_frames, direction, width, height, shifts, saved, frames, i>>

welder_vars == <<vertices, texcoords, faces, tol, mapping, welded, rewelded>>
writer_vars == <<subdivisions, base_vertices, base_texcoords, base_faces,
                 merged_vertices, merged_texcoords, merged_faces,
                 obj_file, mtl_file, vertex_offset>>
scroll_vars == <<n_frames, direction, width, height, shifts, saved>>

(***************************************************************************)
(* Bounds of the model.                                                    *)
(***************************************************************************)
MaxVerts == 3           \* longest vertex list handed to merge_vertices alone
MaxSubdivisions == 3    \* largest subdivision count
MaxFrames == 3          \* longest frame list handed to write_obj_and_mtl
MaxNFrames == 4         \* largest n_frames of generate_scrolled_frames
MaxDim == 4             \* largest image width and height, in pixels

(***************************************************************************)
(* Program constants.                                                      *)
(***************************************************************************)
MERGE_TOL == <<1, 10000>>               \* 0.0001 metres
OBJ_FILENAME == "animation.obj"
MTL_FILENAME == "animation.mtl"

(***************************************************************************)
(* Python built-ins the code relies on.                                    *)
(***************************************************************************)
Min(S) == CHOOSE x \in S : \A y \in S : x <= y

\* range(n): 0, 1, ..., n-1; empty when n <= 0
range(n) == [k \in 1..n |-> k - 1]

RECURSIVE concat(_)
\* the list obtained by appending the rows one after another
concat(rows) == IF rows = << >> THEN << >> ELSE Head(rows) \o concat(Tail(rows))

\* round(p / q) for p >= 0, q > 0: to nearest, ties to the even neighbour
round(p, q) ==
    LET fl == p \div q
        r2 == 2 * (p % q)
    IN  IF r2 < q THEN fl
        ELSE IF r2 > q THEN fl + 1
        ELSE IF fl % 2 = 0 THEN fl ELSE fl + 1

\* sum of the squared coordinate differences of two points of equal dimension
RECURSIVE sqdist(_, _)
sqdist(p, q) ==
    IF p = << >> THEN 0
    ELSE (Head(p) - Head(q)) * (Head(p) - Head(q)) + sqdist(Tail(p), Tail(q))

\* math.dist(p, q) < t for a rational t = t[1]/t[2], t[2] > 0:
\*   sqrt(d2) < t  <=>  t > 0 /\ d2 * t[2]^2 < t[1]^2
\*                 <=>  t > 0 /\ d2 <= (t[1]^2 - 1) \div t[2]^2
dist_lt(p, q, t) ==
    /\ t[1] > 0
    /\ sqdist(p, q) <= (t[1] * t[1] - 1) \div (t[2] * t[2])

(***************************************************************************)
(* create_subdivided_square                                                *)
(***************************************************************************)
\* fault: the top-left index computed one short
quad_bad_corner(s, ci, cj) ==
    LET idx_bl == cj * (s + 1) + ci + 1
        idx_br == idx_bl + 1
        idx_tl == (cj + 1) * (s + 1) + ci
        idx_tr == idx_tl + 1
    IN  <<idx_bl, idx_br, idx_tr, idx_tl>>

\* the four 1-based corner indices of grid cell (ci, cj)
quad(s, ci, cj) ==
    LET idx_bl == cj * (s + 1) + ci + 1
        idx_br == idx_bl + 1
        idx_tl == (cj + 1) * (s + 1) + ci + 1
        idx_tr == idx_tl + 1
    IN  <<idx_bl, idx_br, idx_tr, idx_tl>>

\* the vertices (numerators over s) in row-major order; texcoords alike
grid_vertices(s) ==
    concat([rj \in 1..Len(range(s + 1)) |->
              [ri \in 1..Len(range(s + 1)) |->
                 <<range(s + 1)[ri], range(s + 1)[rj], 0>>]])

grid_texcoords(s) ==
    concat([rj \in 1..Len(range(s + 1)) |->
              [ri \in 1..Len(range(s + 1)) |->
                 <<range(s + 1)[ri], range(s + 1)[rj]>>]])

grid_faces(s) ==
    concat([rj \in 1..Len(range(s)) |->
              [ri \in 1..Len(range(s)) |-> quad(s, range(s)[ri], range(s)[rj])]])

\* i / subdivisions is evaluated as soon as the vertex loop has an iteration:
\* with subdivisions = 0 that raises ZeroDivisionError; with subdivisions < 0
\* both loops are empty and three empty lists are returned.
create_subdivided_square(s) ==
    IF Len(range(s + 1)) > 0 /\ s = 0
    THEN [raised |-> "ZeroDivisionError",
          vertices |-> << >>, texcoords |-> << >>, faces |-> << >>]
    ELSE [raised |-> "None",
          vertices |-> grid_vertices(s),
          texcoords |-> grid_texcoords(s),
          faces |-> grid_faces(s)]

(***************************************************************************)
(* merge_vertices                                                          *)
(***************************************************************************)
\* fault: only identical entries are taken for duplicates
is_duplicate_exact(v, uv, mv, muv, t) == v = mv /\ uv = muv

\* fault: <= tol in place of < tol
is_duplicate_inclusive(v, uv, mv, muv, t) ==
    /\ t[1] >= 0 /\ sqdist(v, mv) <= (t[1] * t[1]) \div (t[2] * t[2])
    /\ t[1] >= 0 /\ sqdist(uv, muv) <= (t[1] * t[1]) \div (t[2] * t[2])

\* the test of the inner loop
is_duplicate(v, uv, mv, muv, t) == dist_lt(v, mv, t) /\ dist_lt(uv, muv, t)

\* fault: the inner loop has no break, the last hit wins
first_match_no_break(merged, v, uv, t) ==
    LET hits == {k \in 1..Len(merged) :
                    is_duplicate(v, uv, merged[k][1], merged[k][2], t)}
    IN  IF hits = {} THEN -1 ELSE (CHOOSE k \in hits : \A h \in hits : h <= k) - 1

\* the inner loop: the 0-based new_idx it breaks at, -1 when found stays False
first_match(merged, v, uv, t) ==
    LET hits == {k \in 1..Len(merged) :
                    is_duplicate(v, uv, merged[k][1], merged[k][2], t)}
    IN  IF hits = {} THEN -1 ELSE Min(hits) - 1

\* fault: on a hit the kept entry is overwritten by the duplicate
merge_step_last_wins(st, v, uv, t) ==
    LET new_idx == first_match(st.merged, v, uv, t)
    IN  IF new_idx >= 0
        THEN [merged |-> [st.merged EXCEPT ![new_idx + 1] = <<v, uv>>],
              mapping |-> (st.i :> new_idx) @@ st.mapping,
              i |-> st.i + 1]
        ELSE [merged |-> Append(st.merged, <<v, uv>>),
              mapping |-> (st.i :> Len(st.merged)) @@ st.mapping,
              i |-> st.i + 1]

\* one pass of the outer loop; st holds merged, mapping and the counter i of
\* enumerate (0-based)
merge_step(st, v, uv, t) ==
    LET new_idx == first_match(st.merged, v, uv, t)
    IN  IF new_idx >= 0
        THEN [merged |-> st.merged,
              mapping |-> (st.i :> new_idx) @@ st.mapping,
              i |-> st.i + 1]
        ELSE [merged |-> Append(st.merged, <<v, uv>>),
              mapping |-> (st.i :> Len(st.merged)) @@ st.mapping,
              i |-> st.i + 1]

RECURSIVE merge_loop(_, _, _, _)
\* the outer loop over enumerate(zip(vertices, texcoords)); zip stops at the
\* end of the shorter list
merge_loop(st, vs, uvs, t) ==
    IF st.i >= Len(vs) \/ st.i >= Len(uvs) THEN st
    ELSE merge_loop(merge_step(st, vs[st.i + 1], uvs[st.i + 1], t), vs, uvs, t)

\* merged and mapping when the outer loop has finished
merge_scan(vs, uvs, t) ==
    merge_loop([merged |-> << >>, mapping |-> [x \in {} |-> 0], i |-> 0], vs, uvs, t)

\* new_face = tuple(mapping[idx - 1] + 1 for idx in face)
remap_face(map, face) == [s \in 1..Len(face) |-> map[face[s] - 1] + 1]

merge_vertices(vs, uvs, fs, t) ==
    LET st == merge_scan(vs, uvs, t)
    IN  [vertices |-> [k \in 1..Len(st.merged) |-> st.merged[k][1]],
         texcoords |-> [k \in 1..Len(st.merged) |-> st.merged[k][2]],
         faces |-> [f \in 1..Len(fs) |-> remap_face(st.mapping, fs[f])]]

(***************************************************************************)
(* write_obj_and_mtl                                                       *)
(***************************************************************************)
\* A written line is <<keyword, payload>>; "\n" alone is <<"", << >> >>.
blank_line == <<"", << >> >>

\* f"{x:.6f}" of the coordinate num/den: the number of millionths printed
fmt6(num, den) == round(num * 1000000, den)

\* MERGE_TOL expressed in the unit of the grid of s subdivisions (1/s metre)
grid_tol(s) == <<MERGE_TOL[1] * s, MERGE_TOL[2]>>

\* fault: an object group is opened before the loop
obj_header_default_object(mtl_filename) ==
    << <<"mtllib", mtl_filename>>, blank_line, <<"o", <<"Mesh_", 0>> >> >>

\* what is written before the loop over the frames
obj_header(mtl_filename) == << <<"mtllib", mtl_filename>> >>

\* fault: vertex_offset is not added
face_line_no_offset(face, off) ==
    <<"f", [s \in 1..4 |-> <<face[s], face[s]>>]>>

\* f"f {v1}/{v1} {v2}/{v2} {v3}/{v3} {v4}/{v4}\n" with every index shifted
face_line(face, off) ==
    <<"f", [s \in 1..4 |-> <<face[s] + off, face[s] + off>>]>>

\* the lines of mesh number k in the OBJ file
mesh_lines(k, den, mvs, mts, mfs, off) ==
    << blank_line, <<"o", <<"Mesh_", k>> >>, <<"usemtl", <<"mat_", k>> >> >>
    \o [n \in 1..Len(mvs) |->
          <<"v", <<fmt6(mvs[n][1], den), fmt6(mvs[n][2], den), fmt6(mvs[n][3], den)>> >>]
    \o [n \in 1..Len(mts) |->
          <<"vt", <<fmt6(mts[n][1], den), fmt6(mts[n][2], den)>> >>]
    \o [n \in 1..Len(mfs) |-> face_line(mfs[n], off)]

\* fault: every material is named after frame 0
mtl_block_first_frame(k, frame_img) ==
    << <<"newmtl", <<"mat_", 0>> >>,
       <<"Ka", "1.000 1.000 1.000">>,
       <<"Kd", "1.000 1.000 1.000">>,
       <<"map_Kd", frame_img>>,
       blank_line >>

\* the material of mesh number k in the MTL file
mtl_block(k, frame_img) ==
    << <<"newmtl", <<"mat_", k>> >>,
       <<"Ka", "1.000 1.000 1.000">>,
       <<"Kd", "1.000 1.000 1.000">>,
       <<"map_Kd", frame_img>>,
       blank_line >>

(***************************************************************************)
(* generate_scrolled_frames                                                *)
(***************************************************************************)
frame_filename(k) == <<"frame_", k, ".png">>

\* fault: the shift is not reduced modulo the dimension
scroll_shift_unwrapped(k, dim, n) == round(k * dim, n)

\* int(round(i * dim / n_frames)) % dim
scroll_shift(k, dim, n) == round(k * dim, n) % dim

\* the opened image: every pixel is labelled by its own coordinates
source_image(w, h) == [p \in (0..(w - 1)) \X (0..(h - 1)) |-> p]

\* ImageChops.offset: the data moved by (xo, yo), wrapping around the edges
offset(img, w, h, xo, yo) ==
    [p \in DOMAIN img |-> img[<<(p[1] - xo) % w, (p[2] - yo) % h>>]]

(***************************************************************************)
(* Inputs.                                                                 *)
(***************************************************************************)
NoMesh == [vertices |-> << >>, texcoords |-> << >>, faces |-> << >>]
NoMapping == [x \in {} |-> 0]

Positions == {<<0, 0, 0>>, <<1, 0, 0>>, <<2, 0, 0>>, <<0, 1, 0>>}
TexCoords == {<<0, 0>>, <<1, 0>>}
Tolerances == {<<0 - 1, 1>>, <<0, 1>>, <<1, 1>>, <<2, 1>>, <<3, 2>>}

\* a quad over n vertices starting at vertex a, its corners taken cyclically
cyclic_quad(a, n) == <<a, (a % n) + 1, ((a + 1) % n) + 1, ((a + 2) % n) + 1>>
InputFaces(n) == {[f \in 1..m |-> cyclic_quad(f, n)] : m \in 0..n}

SubdivisionCounts == (0 - 2)..MaxSubdivisions
FrameNames == {frame_filename(0), frame_filename(1)}
FrameLists == UNION {[1..n -> FrameNames] : n \in 0..MaxFrames}
Directions == {"horizontal", "vertical", "diagonal"}

WelderIdle ==
    /\ vertices = << >> /\ texcoords = << >> /\ faces = << >> /\ tol = <<0, 1>>
    /\ mapping = NoMapping /\ welded = NoMesh /\ rewelded = NoMesh

WriterIdle ==
    /\ subdivisions = 0
    /\ base_vertices = << >> /\ base_texcoords = << >> /\ base_faces = << >>
    /\ merged_vertices = << >> /\ merged_texcoords = << >> /\ merged_faces = << >>
    /\ obj_file = << >> /\ mtl_file = << >> /\ vertex_offset = 0

ScrollIdle ==
    /\ n_frames = 0 /\ direction = "horizontal" /\ width = 1 /\ height = 1
    /\ shifts = << >> /\ saved = << >>

(***************************************************************************)
(* merge_vertices called on a mesh, then on its own result.                *)
(***************************************************************************)
InitWelder ==
    /\ pc = "merge_vertices" /\ error = "None"
    /\ \/ \E n \in 0..MaxVerts :
            /\ vertices \in [1..n -> Positions]
            /\ texcoords \in [1..n -> TexCoords]
            /\ faces \in InputFaces(n)
            /\ tol \in Tolerances
       \/ \E s \in 1..MaxSubdivisions :
            /\ vertices = create_subdivided_square(s).vertices
            /\ texcoords = create_subdivided_square(s).texcoords
            /\ faces = create_subdivided_square(s).faces
            /\ tol = grid_tol(s)
    /\ mapping = NoMapping /\ welded = NoMesh /\ rewelded = NoMesh
    /\ frames = << >> /\ i = 0
    /\ WriterIdle /\ ScrollIdle

Weld ==
    /\ pc = "merge_vertices"
    /\ welded' = merge_vertices(vertices, texcoords, faces, tol)
    /\ mapping' = merge_scan(vertices, texcoords, tol).mapping
    /\ pc' = "welded"
    /\ UNCHANGED <<error, vertices, texcoords, faces, tol, rewelded,
                   writer_vars, scroll_vars, frames, i>>

Reweld ==
    /\ pc = "welded"
    /\ rewelded' = merge_vertices(welded.vertices, welded.texcoords, welded.faces, tol)
    /\ pc' = "rewelded"
    /\ UNCHANGED <<error, vertices, texcoords, faces, tol, mapping, welded,
                   writer_vars, scroll_vars, frames, i>>

NextWelder == Weld \/ Reweld

SpecWelder == InitWelder /\ [][NextWelder]_vars

(***************************************************************************)
(* write_obj_and_mtl(frames, subdivisions, OBJ_FILENAME, MTL_FILENAME)     *)
(***************************************************************************)
InitWriter ==
    /\ pc = "write_obj_and_mtl" /\ error = "None"
    /\ frames \in FrameLists
    /\ subdivisions \in SubdivisionCounts
    /\ base_vertices = << >> /\ base_texcoords = << >> /\ base_faces = << >>
    /\ merged_vertices = << >> /\ merged_texcoords = << >> /\ merged_faces = << >>
    /\ obj_file = << >> /\ mtl_file = << >> /\ vertex_offset = 0
    /\ i = 0
    /\ WelderIdle /\ ScrollIdle

\* line 114; an exception leaves the function before any file is opened
BuildMesh ==
    /\ pc = "write_obj_and_mtl"
    /\ LET m == create_subdivided_square(subdivisions)
       IN  IF m.raised # "None"
           THEN /\ error' = m.raised
                /\ pc' = "raised"
                /\ UNCHANGED <<base_vertices, base_texcoords, base_faces>>
           ELSE /\ base_vertices' = m.vertices
                /\ base_texcoords' = m.texcoords
                /\ base_faces' = m.faces
                /\ pc' = "merge"
                /\ UNCHANGED error
    /\ UNCHANGED <<subdivisions, merged_vertices, merged_texcoords, merged_faces,
                   obj_file, mtl_file, vertex_offset,
                   welder_vars, scroll_vars, frames, i>>

\* line 116
MergeMesh ==
    /\ pc = "merge"
    /\ LET m == merge_vertices(base_vertices, base_texcoords, base_faces,
                               grid_tol(subdivisions))
       IN  /\ merged_vertices' = m.vertices
           /\ merged_texcoords' = m.texcoords
           /\ merged_faces' = m.faces
    /\ pc' = "open"
    /\ UNCHANGED <<error, subdivisions, base_vertices, base_texcoords, base_faces,
                   obj_file, mtl_file, vertex_offset,
                   welder_vars, scroll_vars, frames, i>>

\* lines 118-122
OpenFiles ==
    /\ pc = "open"
    /\ obj_file' = obj_header(MTL_FILENAME)
    /\ mtl_file' = << >>
    /\ vertex_offset' = 0
    /\ i' = 0
    /\ pc' = "frames"
    /\ UNCHANGED <<error, subdivisions, base_vertices, base_texcoords, base_faces,
                   merged_vertices, merged_texcoords, merged_faces,
                   welder_vars, scroll_vars, frames>>

\* lines 124-150: one pass of the loop over enumerate(frames)
WriteFrame ==
    /\ pc = "frames"
    /\ i < Len(frames)
    /\ obj_file' = obj_file \o mesh_lines(i, subdivisions, merged_vertices,
                                          merged_texcoords, merged_faces, vertex_offset)
    /\ vertex_offset' = vertex_offset + Len(merged_vertices)
    /\ mtl_file' = mtl_file \o mtl_block(i, frames[i + 1])
    /\ i' = i + 1
    /\ UNCHANGED <<pc, error, subdivisions, base_vertices, base_texcoords, base_faces,
                   merged_vertices, merged_texcoords, merged_faces,
                   welder_vars, scroll_vars, frames>>

\* the loop is exhausted and the with block closes both files
CloseFiles ==
    /\ pc = "frames"
    /\ i = Len(frames)
    /\ pc' = "done"
    /\ UNCHANGED <<error, writer_vars, welder_vars, scroll_vars, frames, i>>

NextWriter == BuildMesh \/ MergeMesh \/ OpenFiles \/ WriteFrame \/ CloseFiles

SpecWriter == InitWriter /\ [][NextWriter]_vars

(***************************************************************************)
(* generate_scrolled_frames(image_path, n_frames, direction)               *)
(***************************************************************************)
InitScroll ==
    /\ pc = "generate_scrolled_frames" /\ error = "None"
    /\ n_frames \in 0..MaxNFrames
    /\ direction \in Directions
    /\ width \in 1..MaxDim
    /\ height \in 1..MaxDim
    /\ shifts = << >> /\ saved = << >>
    /\ frames = << >> /\ i = 0
    /\ WelderIdle /\ WriterIdle

\* lines 27-41: one pass of the loop over range(n_frames + 1)
ScrollFrame ==
    /\ pc = "generate_scrolled_frames"
    /\ i < n_frames + 1
    /\ IF direction \notin {"horizontal", "vertical"}
       THEN /\ error' = "ValueError"
            /\ pc' = "raised"
            /\ UNCHANGED <<shifts, saved, frames, i>>
       ELSE IF n_frames = 0
       THEN /\ error' = "ZeroDivisionError"
            /\ pc' = "raised"
            /\ UNCHANGED <<shifts, saved, frames, i>>
       ELSE LET shift == IF direction = "horizontal"
                         THEN scroll_shift(i, width, n_frames)
                         ELSE scroll_shift(i, height, n_frames)
                shifted == IF direction = "horizontal"
                           THEN offset(source_image(width, height), width, height, shift, 0)
                           ELSE offset(source_image(width, height), width, height, 0, shift)
            IN  /\ shifts' = Append(shifts, shift)
                /\ saved' = Append(saved, shifted)
                /\ frames' = Append(frames, frame_filename(i))
                /\ i' = i + 1
                /\ UNCHANGED <<pc, error>>
    /\ UNCHANGED <<n_frames, direction, width, height, welder_vars, writer_vars>>

\* line 42
ScrollReturn ==
    /\ pc = "generate_scrolled_frames"
    /\ i = n_frames + 1
    /\ pc' = "returned"
    /\ UNCHANGED <<error, scroll_vars, welder_vars, writer_vars, frames, i>>

NextScroll == ScrollFrame \/ ScrollReturn

SpecScroll == InitScroll /\ [][NextScroll]_vars

(***************************************************************************)
(* Properties.                                                             *)
(***************************************************************************)
\* the lines of a written file that start with the given keyword, in order
lines_of(file, kind) == SelectSeq(file, LAMBDA l : l[1] = kind)

\* the positions in a written file of the lines with the given keyword
places_of(file, kind) == {n \in 1..Len(file) : file[n][1] = kind}

\* math.dist(p, q) <= t for a rational t
dist_le(p, q, t) ==
    /\ t[1] >= 0
    /\ sqdist(p, q) <= (t[1] * t[1]) \div (t[2] * t[2])

\* both distances strictly below the tolerance
both_within(v, uv, w, uw, t) == dist_lt(v, w, t) /\ dist_lt(uv, uw, t)

RECURSIVE is_subsequence(_, _)
\* a is obtained from b by deleting entries, the order kept
is_subsequence(a, b) ==
    IF a = << >> THEN TRUE
    ELSE IF b = << >> THEN FALSE
    ELSE IF Head(a) = Head(b) THEN is_subsequence(Tail(a), Tail(b))
    ELSE is_subsequence(a, Tail(b))

entries_of(vs, uvs) == [n \in 1..Len(vs) |-> <<vs[n], uvs[n]>>]

mesh_built == pc \in {"merge", "open", "frames", "done"}
mesh_welded == pc \in {"welded", "rewelded"}

\* C1: for every subdivision count S >= 1 the mesh builder returns (S+1)^2
\* vertices, (S+1)^2 texcoords and S^2 faces, every face a 4-tuple of pairwise
\* distinct 1-based indices within [1, (S+1)^2].
C1_GridShape ==
    (mesh_built /\ subdivisions >= 1) =>
        /\ Len(base_vertices) = (subdivisions + 1) * (subdivisions + 1)
        /\ Len(base_texcoords) = (subdivisions + 1) * (subdivisions + 1)
        /\ Len(base_faces) = subdivisions * subdivisions
        /\ \A f \in 1..Len(base_faces) :
              /\ Len(base_faces[f]) = 4
              /\ \A a, b \in 1..4 : a # b => base_faces[f][a] # base_faces[f][b]
              /\ \A a \in 1..4 :
                    /\ base_faces[f][a] >= 1
                    /\ base_faces[f][a] <= (subdivisions + 1) * (subdivisions + 1)

C1_Witness ==
    /\ pc = "merge" /\ subdivisions = 2
    /\ Len(base_vertices) = 9 /\ Len(base_faces) = 4
    /\ base_faces[4] = <<5, 6, 9, 8>>

\* C2: for N frames and S >= 1, with V vertices and F faces in the welded
\* mesh, the OBJ file holds N "o" lines, N "usemtl" lines, N*V "v" lines, N*V
\* "vt" lines and N*F "f" lines; the face indices of frame k are those of the
\* welded mesh (frame 0) plus k*V; vertex_offset starts at 0 and has grown by
\* V after each frame.
C2_ObjLayout ==
    LET N == Len(frames)
        V == Len(merged_vertices)
        F == Len(merged_faces)
        fl == lines_of(obj_file, "f")
    IN  /\ (pc \in {"frames", "done"} /\ subdivisions >= 1) =>
              /\ vertex_offset = i * V
              /\ Len(lines_of(obj_file, "o")) = i
              /\ Len(fl) = i * F
        /\ (pc = "done" /\ subdivisions >= 1) =>
              /\ Len(lines_of(obj_file, "o")) = N
              /\ Len(lines_of(obj_file, "usemtl")) = N
              /\ Len(lines_of(obj_file, "v")) = N * V
              /\ Len(lines_of(obj_file, "vt")) = N * V
              /\ Len(fl) = N * F
              /\ \A k \in 0..(N - 1) : \A f \in 1..F : \A s \in 1..4 :
                    /\ fl[f][2][s] = <<merged_faces[f][s], merged_faces[f][s]>>
                    /\ fl[k * F + f][2][s][1] = fl[f][2][s][1] + k * V
                    /\ fl[k * F + f][2][s][2] = fl[f][2][s][2] + k * V

C2_Witness ==
    /\ pc = "done" /\ subdivisions = 1 /\ Len(frames) = 3
    /\ Len(lines_of(obj_file, "v")) = 12
    /\ Len(lines_of(obj_file, "f")) = 3
    /\ lines_of(obj_file, "f")[1][2] = <<<<1, 1>>, <<2, 2>>, <<4, 4>>, <<3, 3>>>>
    /\ lines_of(obj_file, "f")[3][2] = <<<<9, 9>>, <<10, 10>>, <<12, 12>>, <<11, 11>>>>

\* C3: merge_vertices returns no more vertices than it was given, and no two
\* distinct returned entries are strictly within tol of each other in both
\* position and texcoord.
C3_NoCloseSurvivors ==
    mesh_welded =>
        /\ Len(welded.vertices) <= Len(vertices)
        /\ Len(welded.texcoords) = Len(welded.vertices)
        /\ \A a, b \in 1..Len(welded.vertices) :
              a # b => ~both_within(welded.vertices[a], welded.texcoords[a],
                                    welded.vertices[b], welded.texcoords[b], tol)

C3_Witness ==
    /\ pc = "welded" /\ tol = <<2, 1>>
    /\ Len(vertices) = 3 /\ Len(welded.vertices) = 2
    /\ \E a, b \in 1..3 :
          /\ a # b
          /\ vertices[a] # vertices[b]
          /\ both_within(vertices[a], texcoords[a], vertices[b], texcoords[b], tol)

\* C4: welding the result of merge_vertices again with the same tolerance
\* returns the identical vertex list, texcoord list and face list.
C4_Idempotent ==
    pc = "rewelded" =>
        /\ rewelded.vertices = welded.vertices
        /\ rewelded.texcoords = welded.texcoords
        /\ rewelded.faces = welded.faces

C4_Witness ==
    /\ pc = "rewelded" /\ tol[1] > 0
    /\ Len(welded.vertices) < Len(vertices)
    /\ Len(welded.vertices) >= 2
    /\ Len(welded.faces) >= 1
    /\ welded.faces # faces
    /\ rewelded = welded

\* no two input entries are strictly within tol in both position and texcoord
no_pair_within ==
    \A a, b \in 1..Len(vertices) :
        a # b => ~both_within(vertices[a], texcoords[a],
                              vertices[b], texcoords[b], tol)

\* C5: when no two input entries are strictly within tol of each other in
\* both position and texcoord, merge_vertices returns the input mesh
\* unchanged; this covers every input when tol <= 0 and the grid of S = 2 at
\* MERGE_TOL, which keeps its 9 vertices and 4 faces.
C5_NothingToWeld ==
    /\ (mesh_welded /\ no_pair_within) =>
          /\ welded.vertices = vertices
          /\ welded.texcoords = texcoords
          /\ welded.faces = faces
    /\ (mesh_welded /\ tol[1] <= 0) =>
          /\ welded.vertices = vertices
          /\ welded.texcoords = texcoords
          /\ welded.faces = faces
    /\ (mesh_welded /\ tol = grid_tol(2) /\ vertices = grid_vertices(2)
          /\ texcoords = grid_texcoords(2) /\ faces = grid_faces(2)) =>
          /\ Len(welded.vertices) = 9
          /\ Len(welded.faces) = 4
          /\ welded.vertices = vertices /\ welded.faces = faces

C5_Witness ==
    /\ pc = "welded" /\ tol = grid_tol(2)
    /\ vertices = grid_vertices(2) /\ faces = grid_faces(2)
    /\ no_pair_within
    /\ Len(welded.vertices) = 9 /\ Len(welded.faces) = 4

\* C6: the MTL file holds one "newmtl" block per frame, the material names
\* are pairwise distinct, the "map_Kd" line of block number k names frame
\* number k, and the material of block number k is the one the "usemtl" line
\* of mesh number k refers to.
C6_MtlBlocks ==
    pc = "done" =>
        LET N == Len(frames)
            names == lines_of(mtl_file, "newmtl")
            maps == lines_of(mtl_file, "map_Kd")
            uses == lines_of(obj_file, "usemtl")
        IN  /\ Len(names) = N
            /\ Len(maps) = N
            /\ Len(uses) = N
            /\ \A a, b \in 1..N : a # b => names[a][2] # names[b][2]
            /\ \A k \in 1..N :
                  /\ maps[k][2] = frames[k]
                  /\ names[k][2] = uses[k][2]
                  \* the k-th map_Kd line lies inside the k-th block
                  /\ \E n \in places_of(mtl_file, "newmtl") :
                        \E m \in places_of(mtl_file, "map_Kd") :
                           /\ Cardinality({x \in places_of(mtl_file, "newmtl") : x <= n}) = k
                           /\ Cardinality({x \in places_of(mtl_file, "map_Kd") : x <= m}) = k
                           /\ n < m
                           /\ \A x \in places_of(mtl_file, "newmtl") : x > n => x > m

C6_Witness ==
    /\ pc = "done" /\ Len(frames) = 3
    /\ frames[1] # frames[2]
    /\ lines_of(mtl_file, "map_Kd")[2][2] = frames[2]
    /\ lines_of(mtl_file, "newmtl")[3][2] = <<"mat_", 2>>

\* C7: for an empty frame list (and S >= 1) the OBJ file holds the "mtllib"
\* line and nothing else, and the MTL file holds no material block.
C7_EmptyFrameList ==
    (pc = "done" /\ frames = << >> /\ subdivisions >= 1) =>
        /\ Len(obj_file) = 1
        /\ obj_file[1] = <<"mtllib", MTL_FILENAME>>
        /\ \A kind \in {"o", "usemtl", "v", "vt", "f"} : places_of(obj_file, kind) = {}
        /\ mtl_file = << >>

C7_Witness ==
    /\ pc = "done" /\ frames = << >> /\ subdivisions = 2
    /\ Len(merged_vertices) = 9
    /\ obj_file = << <<"mtllib", MTL_FILENAME>> >>

\* C8: for every subdivision count below 1 mesh generation ends with a
\* validation error (not an arithmetic fault) and never returns a mesh.
C8_RejectsBadCount ==
    (subdivisions < 1 /\ pc # "write_obj_and_mtl") =>
        /\ pc = "raised"
        /\ error = "ValueError"

\* the pixel shift of frame number k: the integer nearest to k*dim/n, the even
\* one of the two when k*dim/n lies half way, reduced modulo dim
is_shift(sh, k, dim, n) ==
    \E r \in 0..dim :
        /\ 2 * r * n - 2 * k * dim <= n
        /\ 2 * k * dim - 2 * r * n <= n
        /\ (2 * r * n - 2 * k * dim = n \/ 2 * k * dim - 2 * r * n = n) => r % 2 = 0
        /\ sh = r % dim

scroll_dim == IF direction = "horizontal" THEN width ELSE height

\* C9: for n_frames >= 1, image dimensions >= 1 and a supported direction,
\* generate_scrolled_frames returns the n_frames+1 names frame_0 ..
\* frame_{n_frames}; every shift is round(i*dim/n_frames) mod dim and lies in
\* [0, dim); the last shift equals the first (both 0), so the last frame is
\* identical to the first.
C9_SeamlessLoop ==
    /\ (pc \in {"generate_scrolled_frames", "returned"}) =>
          /\ Len(shifts) = i /\ Len(frames) = i /\ Len(saved) = i
          /\ \A k \in 1..i :
                /\ frames[k] = frame_filename(k - 1)
                /\ shifts[k] >= 0 /\ shifts[k] < scroll_dim
                /\ is_shift(shifts[k], k - 1, scroll_dim, n_frames)
    /\ (pc = "returned") =>
          /\ n_frames >= 1
          /\ Len(frames) = n_frames + 1
          /\ shifts[1] = 0
          /\ shifts[n_frames + 1] = shifts[1]
          /\ saved[n_frames + 1] = saved[1]

C9_Witness ==
    /\ pc = "returned" /\ n_frames = 4 /\ width = 3 /\ direction = "horizontal"
    /\ shifts = <<0, 1, 2, 2, 0>>
    /\ saved[5] = saved[1] /\ saved[2] # saved[1]

\* the returned entries an input entry is strictly within tol of
hits_of(n) ==
    {k \in 1..Len(welded.vertices) :
        both_within(vertices[n], texcoords[n],
                    welded.vertices[k], welded.texcoords[k], tol)}

\* the first two parts of C10: the returned entries are a subsequence of the
\* input entries; input vertex n is mapped to the lowest-index returned entry
\* strictly within tol of it, or to a newly appended copy of itself when there
\* is none; the faces are the 1-based images of the original faces.
first_match_policy ==
    /\ is_subsequence(entries_of(welded.vertices, welded.texcoords),
                      entries_of(vertices, texcoords))
    /\ DOMAIN mapping = 0..(Len(vertices) - 1)
    /\ \A n \in 1..Len(vertices) :
          LET m == mapping[n - 1] + 1
          IN  /\ m \in 1..Len(welded.vertices)
              /\ IF hits_of(n) # {}
                 THEN m = Min(hits_of(n))
                 ELSE /\ welded.vertices[m] = vertices[n]
                      /\ welded.texcoords[m] = texcoords[n]
                      /\ \A h \in 1..(n - 1) : mapping[h - 1] + 1 < m
    /\ Len(welded.faces) = Len(faces)
    /\ \A f \in 1..Len(faces) :
          /\ Len(welded.faces[f]) = Len(faces[f])
          /\ \A s \in 1..Len(faces[f]) :
                /\ welded.faces[f][s] = mapping[faces[f][s] - 1] + 1
                /\ welded.faces[f][s] \in 1..Len(welded.vertices)

\* C10 as stated: the first-match policy, and every slot of every returned
\* face refers to a vertex within tol of the original one.
C10_Original ==
    mesh_welded =>
        /\ first_match_policy
        /\ \A f \in 1..Len(faces) : \A s \in 1..Len(faces[f]) :
              /\ dist_le(vertices[faces[f][s]], welded.vertices[welded.faces[f][s]], tol)
              /\ dist_le(texcoords[faces[f][s]], welded.texcoords[welded.faces[f][s]], tol)

\* C10 (amended): the first-match policy, and every slot of every returned
\* face refers to a vertex that is the original one (same position and
\* texcoord) or is strictly within tol of it in both.
C10_FirstMatch ==
    mesh_welded =>
        /\ first_match_policy
        /\ \A f \in 1..Len(faces) : \A s \in 1..Len(faces[f]) :
              LET o == faces[f][s]
                  m == welded.faces[f][s]
              IN  \/ /\ welded.vertices[m] = vertices[o]
                     /\ welded.texcoords[m] = texcoords[o]
                  \/ both_within(vertices[o], texcoords[o],
                                 welded.vertices[m], welded.texcoords[m], tol)

C10_Witness ==
    /\ pc = "welded" /\ tol[1] > 0
    /\ Len(vertices) = 3 /\ Len(welded.vertices) = 2
    /\ Cardinality(hits_of(3)) = 2
    /\ mapping[2] = 0
    /\ Len(faces) >= 1 /\ welded.faces[1] = <<1, 2, 1, 1>>

====
